---- MODULE Spec2Model ----
(***************************************************************************)
(* The asset views of apps/assets/views/asset.py as a state machine.       *)
(*                                                                         *)
(* The state is the relational store the views read and write (Asset,      *)
(* Protocol and Node rows, the Asset-Protocol link table, Label and        *)
(* SystemUser rows), the selection cache, and one request slot per worker  *)
(* of the hosting runtime.  A request is handled by one worker; every ORM  *)
(* call of a handler that writes is one step (the views open no            *)
(* transaction, so each call commits on its own and the steps of two       *)
(* requests interleave), and every such call either completes or raises.   *)
(* A handler has no try/except: a raise ends the request with whatever it  *)
(* wrote before still in the store.  A finished request is put in          *)
(* `response` with its outcome and handed to the caller by the next step.  *)
(***************************************************************************)
EXTENDS Integers, Sequences, FiniteSets, TLC

VARIABLES
    nodes,            \* Node rows (by id)
    labels,           \* Label rows (by name)
    system_users,     \* SystemUser rows (by name)
    assets,           \* Asset rows: id -> fields
    protocols,        \* Protocol rows
    asset_protocols,  \* rows of the Asset.protocols link table
    cache,            \* selection cache: key -> sequence of asset ids
    req,              \* worker -> the request it is handling
    response,         \* the request just finished, with its outcome
    nreq,             \* requests dispatched so far
    deleted           \* history: asset id -> what it was linked to when deleted

vars == <<nodes, labels, system_users, assets, protocols, asset_protocols,
          cache, req, response, nreq, deleted>>

store == <<nodes, labels, system_users, assets, protocols, asset_protocols>>

---------------------------------------------------------------------------
\* Bounds of the model.

\* requests dispatched in one behaviour
MaxRequests == 2
\* protocol entries a submission may carry beyond max_num
MaxExtra == 1

\* formset_factory(forms.ProtocolForm, extra=0, min_num=1, max_num=5)
min_num == 1
max_num == 5

Workers == {1, 2}
Roles == {"anonymous", "user", "admin"}
AssetIds == 0..MaxRequests

Root == "root"
None == "None"
\* values of the node_id query parameter: absent, empty, an id that exists
\* once the root node does, an id that never exists
NodeIdParams == {None, "", Root, "n9"}
\* values of the spm query parameter: absent (''), a token the cache may
\* hold, a token never stored
SpmParams == {"", "t1", "t2"}
CachedTokens == {"t1"}
\* asset id lists a selection or a bulk form carries
Selections == {<<>>, <<1, 0>>}

\* entries of a protocol sub-form
Ssh == [name |-> "ssh", port |-> 22]
Rdp == [name |-> "rdp", port |-> 3389]
BadPort == [name |-> "ssh", port |-> 0]

Formset(n, e) == [i \in 1..n |-> e]

\* submitted protocol lists: the counts at and around the limits
FormsetLens == {0, min_num, max_num, max_num + MaxExtra}
FormsetData ==
    {Formset(n, IF n = max_num THEN Rdp ELSE Ssh) : n \in FormsetLens}
    \cup {Formset(1, BadPort)}

\* protocol lists submitted with an update
UpdateFormsetData == {Formset(min_num, Ssh), Formset(max_num, Rdp)}

---------------------------------------------------------------------------
\* Helpers on functions.

Put(f, k, v) == [x \in DOMAIN f \cup {k} |-> IF x = k THEN v ELSE f[x]]
Drop(f, k) == [x \in DOMAIN f \ {k} |-> f[x]]
Range(s) == {s[i] : i \in DOMAIN s}

---------------------------------------------------------------------------
\* Collaborators.

\* common.permissions: the capability classes the views name
IsValidUser(role) == role \in {"user", "admin"}
IsOrgAdmin(role) == role = "admin"

\* Node.root(): the root node, created when absent
NodeRoot(ns) == ns \cup {Root}

\* common.utils.get_object_or_none(Node, id=node_id)
get_object_or_none(ns, id) == IF id \in ns THEN id ELSE None

\* forms.ProtocolForm: one sub-form is valid when its port is a port
ProtocolFormIsValid(e) == e.port \in 1..65535

---------------------------------------------------------------------------
\* Permissions.

Views == {"AssetListView", "AssetUserListView", "UserAssetListView",
          "AssetCreateView", "AssetBulkUpdateView", "AssetUpdateView",
          "AssetDeleteView", "AssetDetailView"}

\* permission_classes with AssetDeleteView open to any valid user
permission_classes_delete_valid_user(view) ==
    CASE view = "AssetListView" -> {"IsOrgAdmin"}
      [] view = "AssetUserListView" -> {"IsOrgAdmin"}
      [] view = "UserAssetListView" -> {"IsValidUser"}
      [] view = "AssetCreateView" -> {"IsOrgAdmin"}
      [] view = "AssetBulkUpdateView" -> {"IsOrgAdmin"}
      [] view = "AssetUpdateView" -> {"IsOrgAdmin"}
      [] view = "AssetDeleteView" -> {"IsValidUser"}
      [] view = "AssetDetailView" -> {"IsValidUser"}

\* the permission_classes attribute of each view
permission_classes(view) ==
    CASE view = "AssetListView" -> {"IsOrgAdmin"}
      [] view = "AssetUserListView" -> {"IsOrgAdmin"}
      [] view = "UserAssetListView" -> {"IsValidUser"}
      [] view = "AssetCreateView" -> {"IsOrgAdmin"}
      [] view = "AssetBulkUpdateView" -> {"IsOrgAdmin"}
      [] view = "AssetUpdateView" -> {"IsOrgAdmin"}
      [] view = "AssetDeleteView" -> {"IsOrgAdmin"}
      [] view = "AssetDetailView" -> {"IsValidUser"}

has_permission(class, role) ==
    IF class = "IsOrgAdmin" THEN IsOrgAdmin(role) ELSE IsValidUser(role)

\* PermissionsMixin: the gate run before the handler method is dispatched
Permitted(view, role) == \A c \in permission_classes(view) : has_permission(c, role)

---------------------------------------------------------------------------
\* Requests.

NoData == [hostname |-> "", nodes |-> {}, labels |-> {}, system_users |-> {}]

\* cleaned data of the asset form on a create: a hostname and the rows
\* the asset links to, which the form accepts only when they exist
CreateData(ns) ==
    [hostname |-> "web01", nodes |-> ns, labels |-> labels,
     system_users |-> system_users]

\* cleaned data of the asset form on an update: renamed, links cleared
UpdateData ==
    [hostname |-> "web02", nodes |-> {}, labels |-> {}, system_users |-> {}]

Blank ==
    [pc |-> "idle", rid |-> 0, view |-> "", method |-> "", role |-> "",
     node_id |-> None, pk |-> 0, spm |-> "", data |-> NoData, formset |-> <<>>,
     ids |-> <<>>, protocols |-> {}, wrote |-> {}, outcome |-> "",
     initial |-> "", form |-> <<>>, formset_initial |-> {}, nodes_remain |-> {}]

\* the request a worker starts
Request(view, method, role) ==
    [Blank EXCEPT !.rid = nreq + 1, !.view = view, !.method = method, !.role = role]

\* no response is waiting to be handed over
Ready == response = Blank

\* a new request goes to the first idle worker
Idle(w) ==
    /\ Ready
    /\ req[w].pc = "idle"
    /\ \A v \in Workers : v < w => req[v].pc # "idle"
    /\ nreq < MaxRequests

\* worker w is at step pc of its request
At(w, pc) == Ready /\ req[w].pc = pc

\* the worker is done: the request is published with its outcome
Finish(w, r, outcome) ==
    /\ response' = [r EXCEPT !.pc = "done", !.outcome = outcome]
    /\ req' = [req EXCEPT ![w] = Blank]

\* the request goes on to its next step; nothing is sent yet
Continue(w, r, pc) ==
    /\ req' = [req EXCEPT ![w] = [r EXCEPT !.pc = pc]]
    /\ UNCHANGED response

\* the Protocol rows formset.save() writes for request rid
FormsetRows(rid, formset) ==
    {[rid |-> rid, idx |-> i, name |-> formset[i].name, port |-> formset[i].port] :
        i \in 1..Len(formset)}

\* The store is empty, or holds what an earlier create (request 0, by an
\* admin, no node_id, one ssh entry) has left in it.
Init ==
    /\ labels = {"prod"}
    /\ system_users = {"su1"}
    /\ \/ /\ nodes = {}
          /\ assets = <<>>
          /\ protocols = {}
          /\ asset_protocols = {}
       \/ /\ nodes = {Root}
          /\ assets = [a \in {0} |-> CreateData({Root})]
          /\ protocols = FormsetRows(0, Formset(1, Ssh))
          /\ asset_protocols =
                {[asset |-> 0, protocol |-> p] : p \in FormsetRows(0, Formset(1, Ssh))}
    /\ cache = <<>>
    /\ req = [w \in Workers |-> Blank]
    /\ response = Blank
    /\ nreq = 0
    /\ deleted = <<>>

\* A caller the view's permission classes reject is turned away before the
\* handler method runs.
Deny(w) ==
    /\ Idle(w)
    /\ \E view \in Views, method \in {"GET", "POST"}, role \in Roles :
        /\ ~Permitted(view, role)
        /\ Finish(w, Request(view, method, role), "denied")
    /\ nreq' = nreq + 1
    /\ UNCHANGED <<store, cache, deleted>>

---------------------------------------------------------------------------
\* The read-only views.

\* AssetListView.get_context_data: Node.root() runs before the queries
AssetListGet(w) ==
    /\ Idle(w)
    /\ \E role \in Roles :
        /\ Permitted("AssetListView", role)
        /\ LET r == Request("AssetListView", "GET", role)
           IN Finish(w, [r EXCEPT !.wrote = IF Root \in nodes THEN {} ELSE {"nodes"}],
                     "page")
    /\ nodes' = NodeRoot(nodes)
    /\ nreq' = nreq + 1
    /\ UNCHANGED <<labels, system_users, assets, protocols, asset_protocols,
                   cache, deleted>>

\* AssetUserListView: a DetailView of one asset
AssetUserListGet(w) ==
    /\ Idle(w)
    /\ \E role \in Roles, pk \in AssetIds :
        /\ Permitted("AssetUserListView", role)
        /\ LET r == [Request("AssetUserListView", "GET", role) EXCEPT !.pk = pk]
           IN Finish(w, r, IF pk \in DOMAIN assets THEN "page" ELSE "not_found")
    /\ nreq' = nreq + 1
    /\ UNCHANGED <<store, cache, deleted>>

\* UserAssetListView
UserAssetListGet(w) ==
    /\ Idle(w)
    /\ \E role \in Roles :
        /\ Permitted("UserAssetListView", role)
        /\ Finish(w, Request("UserAssetListView", "GET", role), "page")
    /\ nreq' = nreq + 1
    /\ UNCHANGED <<store, cache, deleted>>

\* Node.objects.exclude(assets=self.object)
NodesRemain(a) == {n \in nodes : n \notin assets[a].nodes}

\* AssetDetailView.get_context_data
AssetDetailGet(w) ==
    /\ Idle(w)
    /\ \E role \in Roles, pk \in AssetIds :
        /\ Permitted("AssetDetailView", role)
        /\ LET r == [Request("AssetDetailView", "GET", role) EXCEPT !.pk = pk]
           IN IF pk \in DOMAIN assets
              THEN Finish(w, [r EXCEPT !.nodes_remain = NodesRemain(pk)], "page")
              ELSE Finish(w, r, "not_found")
    /\ nreq' = nreq + 1
    /\ UNCHANGED <<store, cache, deleted>>

---------------------------------------------------------------------------
\* AssetCreateView.

Truthy(s) == s \notin {None, ""}

\* get_form: the initial value of the form's nodes field
GetFormInitial(node_id, ns) ==
    IF Truthy(node_id) THEN get_object_or_none(ns, node_id) ELSE Root

\* get_form: Node.root() is called only when no node_id is given
GetFormNodes(node_id, ns) ==
    IF Truthy(node_id) THEN ns ELSE NodeRoot(ns)

\* formset.is_valid(): formset_factory is given min_num and max_num but
\* neither validate_min nor validate_max, so the formset is valid when each
\* of its forms is; the number of forms is not looked at
FormsetIsValid(formset) ==
    \A i \in 1..Len(formset) : ProtocolFormIsValid(formset[i])

\* GET: the form with its default node
AssetCreateGet(w) ==
    /\ Idle(w)
    /\ \E role \in Roles, node_id \in NodeIdParams :
        /\ Permitted("AssetCreateView", role)
        /\ LET r == [Request("AssetCreateView", "GET", role) EXCEPT
                        !.node_id = node_id,
                        !.initial = GetFormInitial(node_id, nodes),
                        !.wrote = IF GetFormNodes(node_id, nodes) = nodes
                                  THEN {} ELSE {"nodes"}]
           IN Finish(w, r, "form")
        /\ nodes' = GetFormNodes(node_id, nodes)
    /\ nreq' = nreq + 1
    /\ UNCHANGED <<labels, system_users, assets, protocols, asset_protocols,
                   cache, deleted>>

\* POST: get_form, the asset form's validation, then form_valid up to the
\* formset's validation; an invalid form or formset re-displays the form
AssetCreatePost(w) ==
    /\ Idle(w)
    /\ \E role \in Roles, node_id \in NodeIdParams, form_ok \in BOOLEAN,
          formset \in FormsetData :
        /\ Permitted("AssetCreateView", role)
        /\ nodes' = GetFormNodes(node_id, nodes)
        /\ LET r == [Request("AssetCreateView", "POST", role) EXCEPT
                        !.node_id = node_id,
                        !.initial = GetFormInitial(node_id, nodes),
                        !.data = CreateData(nodes'),
                        !.formset = formset,
                        !.wrote = IF nodes' = nodes THEN {} ELSE {"nodes"}]
           IN IF form_ok /\ FormsetIsValid(formset)
              THEN Continue(w, [r EXCEPT !.node_id = None, !.initial = ""],
                            "formset_save")
              ELSE Finish(w, [r EXCEPT !.data = NoData], "form_errors")
    /\ nreq' = nreq + 1
    /\ UNCHANGED <<labels, system_users, assets, protocols, asset_protocols,
                   cache, deleted>>

\* form_valid: protocols = formset.save()
AssetCreateFormsetSave(w) ==
    /\ At(w, "formset_save")
    /\ LET r == req[w]
           rows == FormsetRows(r.rid, r.formset)
       IN /\ protocols' = protocols \cup rows
          /\ Continue(w, [r EXCEPT !.protocols = rows,
                                   !.wrote = @ \cup {"protocols"}],
                      "super_form_valid")
    /\ UNCHANGED <<nodes, labels, system_users, assets, asset_protocols,
                   cache, nreq, deleted>>

\* form_valid: instance = super().form_valid(form), which saves the asset
AssetCreateSuperFormValid(w) ==
    /\ At(w, "super_form_valid")
    /\ LET r == req[w]
       IN /\ assets' = Put(assets, r.rid, r.data)
          /\ Continue(w, [r EXCEPT !.pk = r.rid, !.wrote = @ \cup {"assets"}],
                      "protocols_set")
    /\ UNCHANGED <<nodes, labels, system_users, protocols, asset_protocols,
                   cache, nreq, deleted>>

\* a.protocols.set that links the first saved row only
ProtocolsSetFirstOnly(a, rows) ==
    {l \in asset_protocols : l.asset # a} \cup
    {[asset |-> a, protocol |-> p] : p \in {x \in rows : x.idx = 1}}

\* the link rows of asset a after a.protocols.set(rows)
ProtocolsSet(a, rows) ==
    {l \in asset_protocols : l.asset # a} \cup
    {[asset |-> a, protocol |-> p] : p \in rows}

\* form_valid: instance.protocols.set(protocols); return instance.
\* The link rows reference the asset row, which must still be there.
AssetCreateProtocolsSet(w) ==
    /\ At(w, "protocols_set")
    /\ LET r == req[w]
       IN /\ r.pk \in DOMAIN assets
          /\ asset_protocols' = ProtocolsSet(r.pk, r.protocols)
          /\ Finish(w, [r EXCEPT !.wrote = @ \cup {"asset_protocols"}], "redirect")
    /\ UNCHANGED <<nodes, labels, system_users, assets, protocols, cache, nreq,
                   deleted>>

---------------------------------------------------------------------------
\* AssetUpdateView.  The view defines get_protocol_formset, get_context_data
\* and get_success_message, and no form_valid: a POST is the generic
\* UpdateView's, which saves the asset form alone.

\* get_protocol_formset on a GET: initial data from the asset's protocols
ProtocolsOf(a) == {l.protocol : l \in {x \in asset_protocols : x.asset = a}}
FormsetInitial(a) == {[name |-> p.name, port |-> p.port] : p \in ProtocolsOf(a)}

AssetUpdateGet(w) ==
    /\ Idle(w)
    /\ \E role \in Roles, pk \in AssetIds :
        /\ Permitted("AssetUpdateView", role)
        /\ LET r == [Request("AssetUpdateView", "GET", role) EXCEPT !.pk = pk]
           IN IF pk \in DOMAIN assets
              THEN Finish(w, [r EXCEPT !.formset_initial = FormsetInitial(pk)], "form")
              ELSE Finish(w, r, "not_found")
    /\ nreq' = nreq + 1
    /\ UNCHANGED <<store, cache, deleted>>

\* POST: get_object, then the asset form's validation; the submitted
\* protocol formset is built only to re-display an invalid form
AssetUpdatePost(w) ==
    /\ Idle(w)
    /\ \E role \in Roles, pk \in AssetIds, form_ok \in BOOLEAN,
          formset \in UpdateFormsetData :
        /\ Permitted("AssetUpdateView", role)
        /\ LET r == [Request("AssetUpdateView", "POST", role) EXCEPT
                        !.pk = pk, !.data = UpdateData, !.formset = formset]
           IN IF pk \notin DOMAIN assets
              THEN Finish(w, [r EXCEPT !.data = NoData, !.formset = <<>>], "not_found")
              ELSE IF form_ok THEN Continue(w, r, "form_save")
              ELSE Finish(w, [r EXCEPT !.data = NoData], "form_errors")
    /\ nreq' = nreq + 1
    /\ UNCHANGED <<store, cache, deleted>>

\* form.save() on the instance get_object loaded: Model.save() updates the
\* row and, when no row has that id any more, inserts it
ModelSave(a, data) == Put(assets, a, data)

AssetUpdateFormSave(w) ==
    /\ At(w, "form_save")
    /\ LET r == req[w]
       IN /\ assets' = ModelSave(r.pk, r.data)
          /\ Finish(w, [r EXCEPT !.wrote = @ \cup {"assets"}], "redirect")
    /\ UNCHANGED <<nodes, labels, system_users, protocols, asset_protocols,
                   cache, nreq, deleted>>

---------------------------------------------------------------------------
\* AssetBulkUpdateView.

\* KEY_CACHE_RESOURCES_ID.format(spm)
CacheKey(spm) == <<"RESOURCES_ID", spm>>

\* cache.get(key): the cached list, or None
CacheGet(key) == IF key \in DOMAIN cache THEN <<cache[key]>> ELSE <<>>

UnboundForm(ids) == [is_bound |-> FALSE, assets |-> ids, errors |-> FALSE]
BoundForm(ids, ok) == [is_bound |-> TRUE, assets |-> ids, errors |-> ~ok]

\* get that never looks at the cached selection
BulkGetFormNoCache(kwform, assets_id) ==
    IF kwform # <<>> THEN kwform[1] ELSE UnboundForm(<<>>)

\* get that tests the cached selection before kwargs['form']
BulkGetFormCacheFirst(kwform, assets_id) ==
    IF assets_id # <<>> /\ assets_id[1] # <<>> THEN UnboundForm(assets_id[1])
    ELSE IF kwform # <<>> THEN kwform[1]
    ELSE UnboundForm(<<>>)

\* get: the form of the view, from kwargs['form'], else from the cached
\* selection when there is a non-empty one, else empty
BulkGetForm(kwform, assets_id) ==
    IF kwform # <<>> THEN kwform[1]
    ELSE IF assets_id # <<>> /\ assets_id[1] # <<>> THEN UnboundForm(assets_id[1])
    ELSE UnboundForm(<<>>)

AssetBulkUpdateGet(w) ==
    /\ Idle(w)
    /\ \E role \in Roles, spm \in SpmParams :
        /\ Permitted("AssetBulkUpdateView", role)
        /\ LET r == [Request("AssetBulkUpdateView", "GET", role) EXCEPT
                        !.spm = spm,
                        !.form = <<BulkGetForm(<<>>, CacheGet(CacheKey(spm)))>>]
           IN Finish(w, r, "form")
    /\ nreq' = nreq + 1
    /\ UNCHANGED <<store, cache, deleted>>

\* post: a valid form goes on to form.save(); an invalid one is handed to
\* get as kwargs['form']
AssetBulkUpdatePost(w) ==
    /\ Idle(w)
    /\ \E role \in Roles, spm \in SpmParams, ids \in Selections,
          form_ok \in BOOLEAN, ls \in SUBSET labels :
        /\ Permitted("AssetBulkUpdateView", role)
        /\ LET r == [Request("AssetBulkUpdateView", "POST", role) EXCEPT
                        !.spm = spm, !.ids = ids,
                        !.data = [NoData EXCEPT !.labels = ls]]
               form == BoundForm(ids, form_ok)
           IN IF form_ok
              THEN Continue(w, [r EXCEPT !.spm = ""], "bulk_save")
              ELSE Finish(w, [r EXCEPT !.data = NoData, !.form =
                                 <<BulkGetForm(<<form>>, CacheGet(CacheKey(spm)))>>],
                          "form_errors")
    /\ nreq' = nreq + 1
    /\ UNCHANGED <<store, cache, deleted>>

\* forms.AssetBulkUpdateForm.save(): the fields overwritten on every named
\* asset that exists
BulkSave(ids, data) ==
    [a \in DOMAIN assets |->
        IF a \in Range(ids) THEN [assets[a] EXCEPT !.labels = data.labels]
        ELSE assets[a]]

AssetBulkUpdateFormSave(w) ==
    /\ At(w, "bulk_save")
    /\ LET r == req[w]
       IN /\ assets' = BulkSave(r.ids, r.data)
          /\ Finish(w, [r EXCEPT !.wrote = IF Range(r.ids) \cap DOMAIN assets = {}
                                           THEN @ ELSE @ \cup {"assets"}],
                    "redirect")
    /\ UNCHANGED <<nodes, labels, system_users, protocols, asset_protocols,
                   cache, nreq, deleted>>

---------------------------------------------------------------------------
\* AssetDeleteView: the generic DeleteView.

\* GET: the confirmation page
AssetDeleteGet(w) ==
    /\ Idle(w)
    /\ \E role \in Roles, pk \in AssetIds :
        /\ Permitted("AssetDeleteView", role)
        /\ LET r == [Request("AssetDeleteView", "GET", role) EXCEPT !.pk = pk]
           IN Finish(w, r, IF pk \in DOMAIN assets THEN "page" ELSE "not_found")
    /\ nreq' = nreq + 1
    /\ UNCHANGED <<store, cache, deleted>>

\* POST: get_object
AssetDeletePost(w) ==
    /\ Idle(w)
    /\ \E role \in Roles, pk \in AssetIds :
        /\ Permitted("AssetDeleteView", role)
        /\ LET r == [Request("AssetDeleteView", "POST", role) EXCEPT !.pk = pk]
           IN IF pk \in DOMAIN assets THEN Continue(w, r, "delete")
              ELSE Finish(w, r, "not_found")
    /\ nreq' = nreq + 1
    /\ UNCHANGED <<store, cache, deleted>>

\* the Asset rows after self.object.delete()
DeleteObject(a) == Drop(assets, a)

\* the rows that go with the asset: its links, and the Protocol rows it owns
DeleteLinks(a) == {l \in asset_protocols : l.asset # a}
DeleteOwned(a) == protocols \ ProtocolsOf(a)

\* POST: self.object.delete(), then the redirect
AssetDeleteDelete(w) ==
    /\ At(w, "delete")
    /\ LET r == req[w]
       IN /\ assets' = DeleteObject(r.pk)
          /\ asset_protocols' = DeleteLinks(r.pk)
          /\ protocols' = DeleteOwned(r.pk)
          /\ deleted' = IF r.pk \in DOMAIN assets
                        THEN Put(deleted, r.pk, assets[r.pk]) ELSE deleted
          /\ Finish(w, [r EXCEPT !.wrote = IF r.pk \in DOMAIN assets
                                           THEN @ \cup {"assets"} ELSE @],
                    "redirect")
    /\ UNCHANGED <<nodes, labels, system_users, cache, nreq>>

---------------------------------------------------------------------------
\* Failures and the environment.

WriteSteps == {"formset_save", "super_form_valid", "protocols_set", "form_save",
               "bulk_save", "delete"}

\* The ORM call a request is about to make raises.  No handler catches it
\* and none runs in a transaction: the request ends, its earlier writes stay.
StoreError(w) ==
    /\ Ready
    /\ req[w].pc \in WriteSteps
    /\ Finish(w, req[w], "error")
    /\ UNCHANGED <<store, cache, nreq, deleted>>

\* The selection API stores the chosen asset ids under a fresh token.
CacheSelection ==
    /\ Ready
    /\ \E t \in CachedTokens, ids \in Selections :
        /\ CacheKey(t) \notin DOMAIN cache
        /\ cache' = Put(cache, CacheKey(t), ids)
    /\ UNCHANGED response
    /\ UNCHANGED <<store, req, nreq, deleted>>

\* A cached selection expires.
ExpireSelection ==
    /\ Ready
    /\ \E k \in DOMAIN cache : cache' = Drop(cache, k)
    /\ UNCHANGED response
    /\ UNCHANGED <<store, req, nreq, deleted>>

\* The response is handed to the caller.
Respond ==
    /\ ~Ready
    /\ response' = Blank
    /\ UNCHANGED <<store, cache, req, nreq, deleted>>

Next ==
    \/ \E w \in Workers : Deny(w)
    \/ \E w \in Workers : AssetListGet(w)
    \/ \E w \in Workers : AssetUserListGet(w)
    \/ \E w \in Workers : UserAssetListGet(w)
    \/ \E w \in Workers : AssetDetailGet(w)
    \/ \E w \in Workers : AssetCreateGet(w)
    \/ \E w \in Workers : AssetCreatePost(w)
    \/ \E w \in Workers : AssetCreateFormsetSave(w)
    \/ \E w \in Workers : AssetCreateSuperFormValid(w)
    \/ \E w \in Workers : AssetCreateProtocolsSet(w)
    \/ \E w \in Workers : AssetUpdateGet(w)
    \/ \E w \in Workers : AssetUpdatePost(w)
    \/ \E w \in Workers : AssetUpdateFormSave(w)
    \/ \E w \in Workers : AssetBulkUpdateGet(w)
    \/ \E w \in Workers : AssetBulkUpdatePost(w)
    \/ \E w \in Workers : AssetBulkUpdateFormSave(w)
    \/ \E w \in Workers : AssetDeleteGet(w)
    \/ \E w \in Workers : AssetDeletePost(w)
    \/ \E w \in Workers : AssetDeleteDelete(w)
    \/ \E w \in Workers : StoreError(w)
    \/ CacheSelection
    \/ ExpireSelection
    \/ Respond

Spec == Init /\ [][Next]_vars

---------------------------------------------------------------------------
\* Properties.

Responded(view, method) ==
    response.pc = "done" /\ response.view = view /\ response.method = method

\* name and port of a set of Protocol rows
Entries(rows) == {[name |-> p.name, port |-> p.port] : p \in rows}

StoreRows == {"assets", "protocols", "asset_protocols"}

\* C1: in every state, also between the persistence steps of a request,
\* every persisted asset has at least min_num and at most max_num protocols.
C1_EveryAssetHasProtocols ==
    \A a \in DOMAIN assets :
        /\ Cardinality(ProtocolsOf(a)) >= min_num
        /\ Cardinality(ProtocolsOf(a)) <= max_num

C3_BadCountRedisplaysForm ==
    /\ \A w \in Workers :
        (req[w].view = "AssetCreateView" /\ req[w].method = "POST")
        => Len(req[w].formset) \in min_num..max_num
    /\ (Responded("AssetCreateView", "POST")
        /\ response.outcome # "denied"
        /\ Len(response.formset) \notin min_num..max_num)
       => (response.outcome = "form_errors" /\ response.wrote \cap StoreRows = {})

\* C4: after an update that succeeded with the protocol list P, the asset's
\* protocols are exactly P.
C4_UpdateReplacesProtocols ==
    (Responded("AssetUpdateView", "POST") /\ response.outcome = "redirect")
    => /\ Entries(ProtocolsOf(response.pk)) = Range(response.formset)
       /\ Cardinality(ProtocolsOf(response.pk)) = Len(response.formset)

\* C5: when a create or an update fails after its first write, no row the
\* request wrote remains: neither its protocol rows nor its asset row.
C5_FailureLeavesNothing ==
    (/\ response.pc = "done"
     /\ response.view \in {"AssetCreateView", "AssetUpdateView"}
     /\ response.outcome = "error"
     /\ response.wrote \cap StoreRows # {})
    => /\ \A p \in protocols : p.rid # response.rid
       /\ \A l \in asset_protocols : l.asset # response.rid
       /\ (response.view = "AssetCreateView" => response.rid \notin DOMAIN assets)

AdminViews == {"AssetListView", "AssetCreateView", "AssetUpdateView",
               "AssetBulkUpdateView", "AssetDeleteView"}

\* C6: a request to the list, create, update, bulk update or delete view by
\* a caller who is not an admin ends denied in a step that leaves the store
\* as it was, and no such request ever gets to a step of its handler.
C6_NonAdminDenied ==
    [][/\ (/\ response'.pc = "done"
           /\ response'.view \in AdminViews
           /\ response'.role # "admin")
          => (response'.outcome = "denied" /\ store' = store)
       /\ \A w \in Workers :
            (req'[w].pc # "idle" /\ req'[w].view \in AdminViews)
            => req'[w].role = "admin"]_vars

C6_Witness ==
    /\ Responded("AssetCreateView", "POST")
    /\ response.role = "user"
    /\ response.outcome = "denied"
    /\ 0 \in DOMAIN assets

\* C7: a bulk update GET succeeds with a form whose initial asset list is
\* the cached sequence when spm is given and the cache holds an entry for
\* it, and with an empty form when spm is missing or has no entry.
C7_BulkGetPrefill ==
    (Responded("AssetBulkUpdateView", "GET") /\ response.outcome # "denied")
    => /\ response.outcome = "form"
       /\ response.form =
            <<UnboundForm(IF response.spm # "" /\ CacheKey(response.spm) \in DOMAIN cache
                          THEN cache[CacheKey(response.spm)]
                          ELSE <<>>)>>

C7_Witness ==
    /\ Responded("AssetBulkUpdateView", "GET")
    /\ response.spm = "t1"
    /\ CacheKey("t1") \in DOMAIN cache
    /\ cache[CacheKey("t1")] = <<1, 0>>
    /\ response.form = <<UnboundForm(<<1, 0>>)>>

\* C8: the default of the create form's node field is the node node_id
\* names when it is given and that node exists, and the root node in every
\* other case; it is never empty.
C8_DefaultNode ==
    (response.pc = "done" /\ response.view = "AssetCreateView"
     /\ response.outcome \in {"form", "form_errors"})
    => /\ response.initial =
            (IF Truthy(response.node_id) /\ response.node_id \in nodes
             THEN response.node_id ELSE Root)
       /\ response.initial # None

\* C9: once an asset has been deleted it stays absent from the store, no
\* protocol row is linked to it, and the nodes, labels and system users it
\* was linked to still exist.
C9_DeletedStaysDeleted ==
    \A a \in DOMAIN deleted :
        /\ a \notin DOMAIN assets
        /\ ProtocolsOf(a) = {}
        /\ deleted[a].nodes \subseteq nodes
        /\ deleted[a].labels \subseteq labels
        /\ deleted[a].system_users \subseteq system_users

\* C10: a bulk update POST whose form is invalid changes nothing in the
\* store and re-displays the submitted form, with its errors and its asset
\* id list, also when the request carries an spm with a cached selection.
C10_BulkInvalidShowsSubmittedForm ==
    [][(/\ response'.pc = "done"
        /\ response'.view = "AssetBulkUpdateView"
        /\ response'.method = "POST"
        /\ response'.outcome = "form_errors")
       => /\ response'.form = <<BoundForm(response'.ids, FALSE)>>
          /\ store' = store]_vars

C10_Witness ==
    /\ Responded("AssetBulkUpdateView", "POST")
    /\ response.outcome = "form_errors"
    /\ response.spm = "t1"
    /\ CacheKey("t1") \in DOMAIN cache
    /\ cache[CacheKey("t1")] = <<1, 0>>
    /\ response.ids = <<>>

====
